---- MODULE Spec2Model ----
(***************************************************************************)
(* Model of the klasse-e conversion utilities:                             *)
(*   konvertieren.js   (src/unnamed/part_000): escape, main, traverse      *)
(*   50ohm_convert.js  (src/50ohm_convert.js): processConversionJob        *)
(*   svg_dimension_parser.js (src/unnamed/part_001): getSvgDimensions      *)
(* JavaScript strings are sequences of one-character strings, so that      *)
(* replacement, concatenation, suffix tests and splitting are computed.    *)
(***************************************************************************)
EXTENDS Integers, Sequences, FiniteSets, TLC

VARIABLES
  \* escape(text) applied once and twice
  xin, xout1, xout2, xpc,
  \* konvertieren.js main(): the input file, the output directory and its
  \* files (now and at the start), the position in main, allQuestions, the
  \* forEach index, filesCreated, the console.error lines and the
  \* writeFileSync calls made
  einput, edir, edir0, efiles, efiles0, epc, allQuestions, eidx, filesCreated,
  elog, wlog,
  \* 50ohm_convert.js: the job list, the job being processed and the position
  \* in processConversionJob, the directories and files on disk (now and when
  \* the job began), sectionQuestionsMap, the index of sections.forEach,
  \* generatedFilesCount, the console.error lines, the files the job wrote
  \* and how the last job ended
  jobs, jobIdx, gpc, gdirs, gdirsJob, gfiles, gfilesJob, sectionQuestionsMap,
  sidx, generatedFilesCount, glog, gemit, goutcome,
  \* svg_dimension_parser.js: the SVG text given to getSvgDimensions, what it
  \* returned, and whether it has run
  svgContent, sresult, spc

xvars == <<xin, xout1, xout2, xpc>>
evars == <<einput, edir, edir0, efiles, efiles0, epc, allQuestions, eidx,
           filesCreated, elog, wlog>>
gvars == <<jobs, jobIdx, gpc, gdirs, gdirsJob, gfiles, gfilesJob, sectionQuestionsMap,
           sidx, generatedFilesCount, glog, gemit, goutcome>>
svars == <<svgContent, sresult, spc>>
vars == <<xvars, evars, gvars, svars>>
notExtract == <<xvars, gvars, svars>>
notEscape == <<evars, gvars, svars>>
notGroup == <<xvars, evars, svars>>
notSvg == <<xvars, evars, gvars>>

\* ------------------------------------------------------------------ bounds
MaxTextLen == 3
\* longest 'questions' array of the extractor's input documents
MaxQ == 2
\* longest 'questions' and 'sections' arrays of a grouper job, longest job list
MaxGQ == 2
MaxGS == 2
MaxJobs == 2
\* most attributes on the root <svg> tag
MaxAttrs == 3

\* ------------------------------------------------------- JavaScript values
\* A value is [t, s, e]: t its type tag, s the characters of a string (or the
\* text of a number or boolean), e the own entries of an object or array.
StrVal(chars) == [t |-> "str", s |-> chars, e |-> <<>>]
NumVal(chars) == [t |-> "num", s |-> chars, e |-> <<>>]
BoolVal(chars) == [t |-> "bool", s |-> chars, e |-> <<>>]
NullVal == [t |-> "null", s |-> <<>>, e |-> <<>>]
Undefined == [t |-> "undefined", s |-> <<>>, e |-> <<>>]
ObjVal(entries) == [t |-> "obj", s |-> <<>>, e |-> entries]
ArrVal(entries) == [t |-> "arr", s |-> <<>>, e |-> entries]
Entry(key, val) == [k |-> key, v |-> val]

RECURSIVE SeqsUpTo(_, _)
SeqsUpTo(S, n) ==
  IF n = 0 THEN {<<>>}
  ELSE LET shorter == SeqsUpTo(S, n - 1)
       IN  shorter \cup {Append(q, x) : q \in {r \in shorter : Len(r) = n - 1}, x \in S}

Chars(s) == {s[i] : i \in DOMAIN s}

\* ------------------------------------------------- konvertieren.js: escape
\* String.prototype.replace(/c/g, rep): every occurrence of the character c,
\* left to right, replaced by the characters rep.
RECURSIVE ReplaceAll(_, _, _)
ReplaceAll(s, c, rep) ==
  IF s = <<>> THEN <<>>
  ELSE (IF Head(s) = c THEN rep ELSE <<Head(s)>>) \o ReplaceAll(Tail(s), c, rep)

BS == "\\"
Tilde == <<BS, "t", "e", "x", "t", "a", "s", "c", "i", "i", "t", "i", "l", "d", "e", "{", "}">>
Circum == <<BS, "t", "e", "x", "t", "a", "s", "c", "i", "i", "c", "i", "r", "c", "u", "m", "{", "}">>

\* The replacement of '&' (line 17), the first link of the chain.
EscapeAmpDropped(s) == s
EscapeAmp(s) == ReplaceAll(s, "&", <<BS, "&">>)

\* The chain of lines 17-26, each link working on the previous link's result.
EscapeChain(s) ==
  LET s1 == EscapeAmp(s)
      s2 == ReplaceAll(s1, "%", <<BS, "%">>)
      s3 == ReplaceAll(s2, "#", <<BS, "#">>)
      s4 == ReplaceAll(s3, "_", <<BS, "_">>)
      s5 == ReplaceAll(s4, "{", <<BS, "{">>)
      s6 == ReplaceAll(s5, "}", <<BS, "}">>)
      s7 == ReplaceAll(s6, "~", Tilde)
      s8 == ReplaceAll(s7, "^", Circum)
  IN  ReplaceAll(s8, "\"", <<"\"", "\"">>)

\* escape(text): '' for anything that is not a string.
escape(text) == IF text.t # "str" THEN <<>> ELSE EscapeChain(text.s)

EscAlphabet == {"&", "%", "#", "_", "{", "}", "~", "^", "\"", BS, "a"}
NonStrings == {NumVal(<<"7">>), BoolVal(<<"t", "r", "u", "e">>), NullVal, Undefined,
               ObjVal(<<>>), ArrVal(<<>>)}
EscInputs == {StrVal(s) : s \in SeqsUpTo(EscAlphabet, MaxTextLen)} \cup NonStrings


\* ----------------------------------------------- konvertieren.js: traverse
\* Array index keys ("0", "1", ...) in ascending order.
IndexKeys == <<"0", "1", "2", "3", "4", "5">>
IsIndexKey(key) == \E i \in DOMAIN IndexKeys : IndexKeys[i] = key

\* A parsed JSON array: its own entries are keyed by index.
MkArr(vals) == ArrVal([i \in DOMAIN vals |-> Entry(IndexKeys[i], vals[i])])
Elements(arr) == [i \in DOMAIN arr.e |-> arr.e[i].v]

RECURSIVE IndexEntriesFrom(_, _)
IndexEntriesFrom(entries, i) ==
  IF i > Len(IndexKeys) THEN <<>>
  ELSE SelectSeq(entries, LAMBDA en : en.k = IndexKeys[i]) \o IndexEntriesFrom(entries, i + 1)

\* Object.entries(jsonObj): the own enumerable string-keyed properties in
\* property order, which is integer-like keys in ascending numeric order and
\* then the other keys in insertion order.
ObjectEntries(jsonObj) ==
  IndexEntriesFrom(jsonObj.e, 1) \o SelectSeq(jsonObj.e, LAMBDA en : ~IsIndexKey(en.k))

\* allQuestions.push(...value): spreading iterates an array's elements and a
\* string's characters; any other value is not iterable and throws TypeError.
PushSpread(acc, value) ==
  CASE value.t = "arr" -> [acc EXCEPT !.qs = acc.qs \o Elements(value)]
    [] value.t = "str" -> [acc EXCEPT !.qs = acc.qs \o [i \in DOMAIN value.s |-> StrVal(<<value.s[i]>>)]]
    [] OTHER -> [acc EXCEPT !.thrown = TRUE]

\* traverse(jsonObj), lines 52-62, with allQuestions and a pending exception
\* carried in acc; an exception ends the whole traversal.
RECURSIVE traverse(_, _), traverseEntries(_, _)
traverse(jsonObj, acc) ==
  IF jsonObj.t \in {"obj", "arr"} THEN traverseEntries(ObjectEntries(jsonObj), acc) ELSE acc
traverseEntries(entries, acc) ==
  IF entries = <<>> \/ acc.thrown THEN acc
  ELSE LET en == Head(entries)
       IN  traverseEntries(Tail(entries),
             IF en.k = "questions" THEN PushSpread(acc, en.v) ELSE traverse(en.v, acc))

\* ------------------------------------------------- konvertieren.js: main
\* question.<key>: a property read; on null it throws (guarded by the caller).
Get(val, key) ==
  IF val.t = "obj" /\ \E i \in DOMAIN val.e : val.e[i].k = key
  THEN val.e[CHOOSE i \in DOMAIN val.e : val.e[i].k = key].v
  ELSE Undefined

\* `${value}`: the string a template literal makes of a value; an array is
\* its elements joined by commas, null and undefined elements left empty.
RECURSIVE ToStr(_), JoinElements(_)
ToStr(val) ==
  CASE val.t \in {"str", "num", "bool"} -> val.s
    [] val.t = "null" -> <<"n", "u", "l", "l">>
    [] val.t = "undefined" -> <<"u", "n", "d", "e", "f", "i", "n", "e", "d">>
    [] val.t = "arr" -> JoinElements(val.e)
    [] OTHER -> <<"[", "o", "b", "j", "e", "c", "t", " ", "O", "b", "j", "e", "c", "t", "]">>
JoinElements(entries) ==
  IF entries = <<>> THEN <<>>
  ELSE LET first == IF Head(entries).v.t \in {"null", "undefined"} THEN <<>>
                    ELSE ToStr(Head(entries).v)
       IN  IF Len(entries) = 1 THEN first
           ELSE first \o <<",">> \o JoinElements(Tail(entries))

\* !!value
Truthy(val) ==
  CASE val.t = "str" -> val.s # <<>>
    [] val.t = "num" -> val.s # <<"0">>
    [] val.t = "bool" -> val.s = <<"t", "r", "u", "e">>
    [] val.t \in {"null", "undefined"} -> FALSE
    [] OTHER -> TRUE
BoolText(b) == IF b THEN <<"t", "r", "u", "e">> ELSE <<"f", "a", "l", "s", "e">>

Braced(s) == <<"{">> \o s \o <<"}">>
Indent == <<"\n", " ", " ", " ", " ">>

\* latexFragment.trim(), lines 79-88: the template starts with a line break
\* and ends with one, which trim() removes.
LatexFragment(question) ==
  <<BS, "f", "r", "a", "g", "e">> \o Braced(escape(Get(question, "number")))
    \o Indent \o Braced(escape(Get(question, "question")))
    \o Indent \o Braced(escape(Get(question, "answer_a")))
    \o Indent \o Braced(escape(Get(question, "answer_b")))
    \o Indent \o Braced(escape(Get(question, "answer_c")))
    \o Indent \o Braced(escape(Get(question, "answer_d")))
    \o Indent \o Braced(BoolText(Truthy(Get(question, "picture_question"))))
    \o Braced(BoolText(Truthy(Get(question, "picture_a"))))

\* fileName, line 89
FileName(question) == ToStr(Get(question, "number")) \o <<".", "t", "e", "x">>

\* fs.writeFileSync(filePath, content) that succeeds: the file is created or
\* replaced.
WriteFileKeepOld(files, name, content) ==
  [n \in DOMAIN files \cup {name} |-> IF n \in DOMAIN files THEN files[n] ELSE content]
WriteFile(files, name, content) ==
  [n \in DOMAIN files \cup {name} |-> IF n = name THEN content ELSE files[n]]

NoFiles == [n \in {} |-> <<>>]

\* ---- the inputs of main: fragenkatalog documents
Q(number, text) == ObjVal(<<Entry("number", StrVal(number)), Entry("question", StrVal(text))>>)
qA1 == Q(<<"A">>, <<"x">>)
qA2 == ObjVal(<<Entry("number", StrVal(<<"A">>)), Entry("question", StrVal(<<"&">>)),
                Entry("picture_question", StrVal(<<"p">>))>>)
qB == Q(<<"B">>, <<"x">>)
\* a record that itself holds a 'questions' key
qNested == ObjVal(<<Entry("number", StrVal(<<"B">>)), Entry("questions", MkArr(<<qA1>>))>>)
QItems == {qA1, qA2, qB}
QArrays == {MkArr(s) : s \in SeqsUpTo(QItems, MaxQ)}
QTails == {MkArr(<<>>), MkArr(<<qA2>>), MkArr(<<qB>>)}
\* 'questions' values that are no sequence
NonSeqValues == {StrVal(<<"a", "b">>), StrVal(<<>>), NumVal(<<"5">>),
                 BoolVal(<<"t", "r", "u", "e">>), NullVal,
                 ObjVal(<<Entry("a", StrVal(<<"q">>))>>)}
Holder(v) == ObjVal(<<Entry("questions", v)>>)

Documents ==
  {Holder(v) : v \in QArrays \cup NonSeqValues}
    \cup {ObjVal(<<Entry("a", ObjVal(<<Entry("b", Holder(v))>>))>>) : v \in QArrays}
    \cup {ObjVal(<<Entry("a", Holder(v1)), Entry("b", Holder(v2))>>) : v1 \in QArrays, v2 \in QTails}
    \cup {ObjVal(<<Entry("b", Holder(v1)), Entry("1", Holder(v2))>>) : v1 \in QArrays, v2 \in QTails}
    \cup {MkArr(<<Holder(v1), Holder(v2)>>) : v1 \in QArrays, v2 \in QTails}
    \cup {ObjVal(<<Entry("questions", v1), Entry("a", MkArr(<<ObjVal(<<Entry("b", Holder(v2))>>)>>))>>) :
            v1 \in QArrays, v2 \in QTails}
    \cup {ObjVal(<<Entry("a", Holder(v1)), Entry("b", Holder(v2))>>) : v1 \in QTails, v2 \in NonSeqValues}
    \cup {NullVal, StrVal(<<"q">>), NumVal(<<"1">>), ObjVal(<<>>), MkArr(<<>>),
          ObjVal(<<Entry("a", StrVal(<<"q">>))>>),
          Holder(MkArr(<<qNested>>)), Holder(MkArr(<<qNested, qB>>)),
          Holder(MkArr(<<qA1, NullVal>>)), Holder(MkArr(<<NumVal(<<"1">>), NumVal(<<"2">>)>>))}

\* The input file: readable and parsed to doc, missing, or not valid JSON.
InputFiles ==
  {[st |-> "ok", doc |-> d] : d \in Documents}
    \cup {[st |-> s, doc |-> NullVal] : s \in {"missing", "invalid"}}

\* The output directory before the run: absent, empty, or holding a file of
\* an earlier run.
StaleFiles == [n \in {<<"A", ".", "t", "e", "x">>} |-> <<"o", "l", "d">>]

InitExtract ==
  /\ einput \in InputFiles
  /\ edir0 \in BOOLEAN
  /\ edir = edir0
  /\ efiles0 \in (IF edir0 THEN {NoFiles, StaleFiles} ELSE {NoFiles})
  /\ efiles = efiles0
  /\ epc = "start"
  /\ allQuestions = <<>>
  /\ eidx = 0
  /\ filesCreated = 0
  /\ elog = <<>>
  /\ wlog = <<>>

\* lines 34-37: the output directory is created if it does not exist
MainSetup ==
  /\ epc = "start"
  /\ edir' = TRUE
  /\ epc' = "read"
  /\ UNCHANGED <<einput, edir0, efiles, efiles0, allQuestions, eidx, filesCreated, elog, wlog>>
  /\ UNCHANGED notExtract

\* lines 40-48: readFileSync and JSON.parse in one try; a failure of either is
\* logged and main returns
MainReadLog == <<"Fehler beim Lesen der Datei">>
\* (the catch block without its return)
MainReadNoReturn ==
  /\ epc = "read"
  /\ epc' = "traverse"
  /\ elog' = IF einput.st = "ok" THEN elog ELSE elog \o MainReadLog
  /\ UNCHANGED <<einput, edir, edir0, efiles, efiles0, allQuestions, eidx, filesCreated, wlog>>
  /\ UNCHANGED notExtract
MainRead ==
  /\ epc = "read"
  /\ IF einput.st = "ok"
     THEN /\ epc' = "traverse"
          /\ elog' = elog
     ELSE /\ epc' = "readError"
          /\ elog' = elog \o MainReadLog
  /\ UNCHANGED <<einput, edir, edir0, efiles, efiles0, allQuestions, eidx, filesCreated, wlog>>
  /\ UNCHANGED notExtract

\* lines 51-63: traverse(allQuestionsRaw); a TypeError of the spread is not
\* caught anywhere and ends the process (Node prints it and exits)
MainTraverse ==
  /\ epc = "traverse"
  /\ LET r == traverse(einput.doc, [qs |-> <<>>, thrown |-> FALSE])
     IN  /\ allQuestions' = r.qs
         /\ epc' = IF r.thrown THEN "uncaught" ELSE "write"
  /\ eidx' = 1
  /\ UNCHANGED <<einput, edir, edir0, efiles, efiles0, filesCreated, elog, wlog>>
  /\ UNCHANGED notExtract

\* lines 70-98, one question of the forEach. Reading a property of null
\* throws outside the try. The write itself succeeds or fails as the file
\* system decides (ok); a failure is logged and the loop goes on.
WriteLog == <<"Fehler beim Schreiben der Datei">>
MainWrite(ok) ==
  /\ epc = "write"
  /\ eidx <= Len(allQuestions)
  /\ LET question == allQuestions[eidx]
     IN  IF question.t = "null"
         THEN /\ epc' = "uncaught"
              /\ UNCHANGED <<efiles, filesCreated, elog, wlog, eidx>>
         ELSE /\ wlog' = Append(wlog, [name |-> FileName(question), ok |-> ok])
              /\ IF ok
                 THEN /\ efiles' = WriteFile(efiles, FileName(question), LatexFragment(question))
                      /\ filesCreated' = filesCreated + 1
                      /\ elog' = elog
                 ELSE /\ elog' = elog \o WriteLog
                      /\ UNCHANGED <<efiles, filesCreated>>
              /\ eidx' = eidx + 1
              /\ epc' = epc
  /\ UNCHANGED <<einput, edir, edir0, efiles0, allQuestions>>
  /\ UNCHANGED notExtract

\* line 100: the count is logged and main returns
MainFinish ==
  /\ epc = "write"
  /\ eidx > Len(allQuestions)
  /\ epc' = "done"
  /\ UNCHANGED <<einput, edir, edir0, efiles, efiles0, allQuestions, eidx, filesCreated, elog, wlog>>
  /\ UNCHANGED notExtract

NextExtract ==
  \/ MainSetup
  \/ MainRead
  \/ MainTraverse
  \/ \E ok \in BOOLEAN : MainWrite(ok)
  \/ MainFinish

\* ------------------------------------------- 50ohm_convert.js: the grouper
FRAGEN_SUBDIR == <<"t", "e", "x", "_", "f", "r", "a", "g", "e", "n">>

\* `${q.chapter}-${q.section}`, lines 89 and 102
KeyOf(rec) == ToStr(Get(rec, "chapter")) \o <<"-">> \o ToStr(Get(rec, "section"))

\* sectionQuestionsMap, a Map in insertion order: a sequence of [key, list].
MapHas(map, key) == \E i \in DOMAIN map : map[i].key = key
MapGet(map, key) == map[CHOOSE i \in DOMAIN map : map[i].key = key].list

\* lines 91-94: create the entry on first sight, then push q onto its list
MapPushFront(map, q) ==
  IF MapHas(map, KeyOf(q))
  THEN [i \in DOMAIN map |-> IF map[i].key = KeyOf(q)
                             THEN [map[i] EXCEPT !.list = <<q>> \o map[i].list] ELSE map[i]]
  ELSE Append(map, [key |-> KeyOf(q), list |-> <<q>>])
MapPush(map, q) ==
  IF MapHas(map, KeyOf(q))
  THEN [i \in DOMAIN map |-> IF map[i].key = KeyOf(q)
                             THEN [map[i] EXCEPT !.list = Append(map[i].list, q)] ELSE map[i]]
  ELSE Append(map, [key |-> KeyOf(q), list |-> <<q>>])

\* questions.forEach, lines 88-95
RECURSIVE GroupQuestions(_, _)
GroupQuestions(questions, map) ==
  IF questions = <<>> THEN map
  ELSE GroupQuestions(Tail(questions), MapPush(map, Head(questions)))

\* generateLatexContent(fragenListe), lines 35-50: content += per question
RECURSIVE InputLines(_, _)
InputLines(fragenListe, content) ==
  IF fragenListe = <<>> THEN content
  ELSE InputLines(Tail(fragenListe),
         content \o <<" ", " ", " ", " ", BS, "i", "n", "p", "u", "t", "{">> \o FRAGEN_SUBDIR \o <<"/">>
           \o ToStr(Get(Head(fragenListe), "number")) \o <<".", "t", "e", "x", "}", "\n">>)
generateLatexContent(fragenListe) ==
  InputLines(fragenListe, <<BS, "b", "e", "g", "i", "n", "{", "d", "e", "s", "c", "r", "i", "p", "t", "i", "o", "n", "}", "\n">>) \o <<BS, "e", "n", "d", "{", "d", "e", "s", "c", "r", "i", "p", "t", "i", "o", "n", "}", "\n">>

\* fileHeader, line 120
FileHeader(sektion) ==
  <<"%", " ", "K", "a", "p", "i", "t", "e", "l", " ">> \o ToStr(Get(sektion, "chapter")) \o <<",", " ", "S", "e", "k", "t", "i", "o", "n", " ">> \o ToStr(Get(sektion, "section"))
    \o <<":", " ">> \o ToStr(Get(sektion, "section_txt")) \o <<"\n", "\n">>

\* fileName, lines 109-113
SectionFileName(sektion) ==
  ToStr(Get(sektion, "chapter")) \o <<"S">> \o ToStr(Get(sektion, "section")) \o <<".", "t", "e", "x">>

\* ---- the inputs of the grouper
GRec(chapter, section, key, val) ==
  ObjVal(<<Entry("chapter", chapter), Entry("section", section), Entry(key, StrVal(val))>>)
ch1 == StrVal(<<"1">>)
ch12 == StrVal(<<"1", "-", "2">>)
ch2 == NumVal(<<"2">>)
se3 == StrVal(<<"3">>)
se23 == StrVal(<<"2", "-", "3">>)
GQuestions == {GRec(ch1, se23, "number", <<"B">>), GRec(ch1, se23, "number", <<"A">>),
               GRec(ch12, se3, "number", <<"A">>), GRec(ch2, se3, "number", <<"C">>)}
GSections == {GRec(ch1, se23, "section_txt", <<"X">>), GRec(ch12, se3, "section_txt", <<"Y">>),
              GRec(ch2, se3, "section_txt", <<"Z">>)}

\* The file at jsonPath: st says whether it is there and parses; has says
\* which of the fields 'sections' and 'questions' the document carries.
JobFile(st, hasS, hasQ, sections, questions) ==
  [st |-> st, hasSections |-> hasS, hasQuestions |-> hasQ,
   sections |-> sections, questions |-> questions]
RichJobs ==
  {JobFile("ok", TRUE, TRUE, s, q) : s \in SeqsUpTo(GSections, MaxGS), q \in SeqsUpTo(GQuestions, MaxGQ)}
SmallJobs ==
  {JobFile("missing", FALSE, FALSE, <<>>, <<>>), JobFile("invalid", FALSE, FALSE, <<>>, <<>>),
   JobFile("ok", FALSE, TRUE, <<>>, <<>>), JobFile("ok", TRUE, FALSE, <<>>, <<>>),
   JobFile("ok", TRUE, TRUE, <<GRec(ch2, se3, "section_txt", <<"Z">>)>>,
                             <<GRec(ch2, se3, "number", <<"C">>)>>)}
JobLists ==
  {<<j>> : j \in RichJobs} \cup {l \in SeqsUpTo(SmallJobs, MaxJobs) : l # <<>>}

\* conversionJobs[i].outputDir: every job has a directory of its own
OutputDir(i) == <<"tex_sections", i>>

\* A section file an earlier run left in the first job's directory.
StaleSectionFiles ==
  [n \in {<<OutputDir(1), <<"2", "S", "3", ".", "t", "e", "x">>>>} |-> <<"o", "l", "d">>]

InitGroup ==
  /\ jobs \in JobLists
  /\ jobIdx = 1
  /\ gpc = "setup"
  /\ gdirs \in {{}, {OutputDir(1)}}
  /\ gdirsJob = gdirs
  /\ gfiles \in (IF gdirs = {} THEN {NoFiles} ELSE {NoFiles, StaleSectionFiles})
  /\ gfilesJob = gfiles
  /\ sectionQuestionsMap = <<>>
  /\ sidx = 0
  /\ generatedFilesCount = 0
  /\ glog = <<>>
  /\ gemit = <<>>
  /\ goutcome = "none"

\* line 62, setupOutputDirectory(outputDir)
setupOutputDirectory ==
  /\ gpc = "setup"
  /\ gdirs' = gdirs \cup {OutputDir(jobIdx)}
  /\ gpc' = "read"
  /\ UNCHANGED <<jobs, jobIdx, gdirsJob, gfiles, gfilesJob, sectionQuestionsMap, sidx,
                 generatedFilesCount, glog, gemit, goutcome>>
  /\ UNCHANGED notGroup

\* lines 65-71: readFileSync in a try; a failure is logged and the job returns
JobReadLog == <<"Fehler beim Lesen von">>
JobRead ==
  /\ gpc = "read"
  /\ IF jobs[jobIdx].st = "missing"
     THEN /\ glog' = glog \o JobReadLog
          /\ goutcome' = "readError"
          /\ gpc' = "returned"
     ELSE /\ gpc' = "parse"
          /\ UNCHANGED <<glog, goutcome>>
  /\ UNCHANGED <<jobs, jobIdx, gdirs, gdirsJob, gfiles, gfilesJob, sectionQuestionsMap, sidx,
                 generatedFilesCount, gemit>>
  /\ UNCHANGED notGroup

\* line 73: JSON.parse outside any try; a SyntaxError leaves the function and
\* conversionJobs.forEach and ends the process
JobParse ==
  /\ gpc = "parse"
  /\ IF jobs[jobIdx].st = "invalid"
     THEN /\ goutcome' = "parseThrew"
          /\ gpc' = "uncaught"
     ELSE /\ gpc' = "check"
          /\ UNCHANGED goutcome
  /\ UNCHANGED <<jobs, jobIdx, gdirs, gdirsJob, gfiles, gfilesJob, sectionQuestionsMap, sidx,
                 generatedFilesCount, glog, gemit>>
  /\ UNCHANGED notGroup

\* lines 76-98: the presence check, logged on failure, then the map is built
SchemaLog == <<"enthaelt nicht die erwarteten Felder">>
JobGroup ==
  /\ gpc = "check"
  /\ IF ~jobs[jobIdx].hasSections \/ ~jobs[jobIdx].hasQuestions
     THEN /\ glog' = glog \o SchemaLog
          /\ goutcome' = "schemaError"
          /\ gpc' = "returned"
          /\ UNCHANGED <<sectionQuestionsMap, sidx, generatedFilesCount>>
     ELSE /\ sectionQuestionsMap' = GroupQuestions(jobs[jobIdx].questions, <<>>)
          /\ sidx' = 1
          /\ generatedFilesCount' = 0
          /\ gpc' = "sections"
          /\ UNCHANGED <<glog, goutcome>>
  /\ UNCHANGED <<jobs, jobIdx, gdirs, gdirsJob, gfiles, gfilesJob, gemit>>
  /\ UNCHANGED notGroup

\* lines 100-127, one section of sections.forEach: a section whose key has
\* questions gets its file written; writeFileSync is in no try, so a failure
\* (ok = FALSE) leaves the forEach, the job and the batch
JobSection(ok) ==
  /\ gpc = "sections"
  /\ sidx <= Len(jobs[jobIdx].sections)
  /\ LET sektion == jobs[jobIdx].sections[sidx]
         key == KeyOf(sektion)
         listed == MapHas(sectionQuestionsMap, key) /\ Len(MapGet(sectionQuestionsMap, key)) > 0
         filePath == <<OutputDir(jobIdx), SectionFileName(sektion)>>
     IN  IF ~listed
         THEN /\ sidx' = sidx + 1
              /\ UNCHANGED <<gpc, gfiles, generatedFilesCount, gemit, goutcome>>
         ELSE IF ok
         THEN /\ gfiles' = WriteFile(gfiles, filePath,
                             FileHeader(sektion) \o generateLatexContent(MapGet(sectionQuestionsMap, key)))
              /\ gemit' = Append(gemit, [path |-> filePath,
                             content |-> FileHeader(sektion) \o generateLatexContent(MapGet(sectionQuestionsMap, key))])
              /\ generatedFilesCount' = generatedFilesCount + 1
              /\ sidx' = sidx + 1
              /\ UNCHANGED <<gpc, goutcome>>
         ELSE /\ goutcome' = "writeThrew"
              /\ gpc' = "uncaught"
              /\ UNCHANGED <<sidx, gfiles, generatedFilesCount, gemit>>
  /\ UNCHANGED <<jobs, jobIdx, gdirs, gdirsJob, gfilesJob, sectionQuestionsMap, glog>>
  /\ UNCHANGED notGroup

\* line 129: the count is logged and the job returns
JobFinish ==
  /\ gpc = "sections"
  /\ sidx > Len(jobs[jobIdx].sections)
  /\ goutcome' = "done"
  /\ gpc' = "returned"
  /\ UNCHANGED <<jobs, jobIdx, gdirs, gdirsJob, gfiles, gfilesJob, sectionQuestionsMap, sidx,
                 generatedFilesCount, glog, gemit>>
  /\ UNCHANGED notGroup

\* line 133, conversionJobs.forEach: the next job, or the end of the batch
NextJob ==
  /\ gpc = "returned"
  /\ IF jobIdx < Len(jobs)
     THEN /\ jobIdx' = jobIdx + 1
          /\ gpc' = "setup"
          /\ gdirsJob' = gdirs
          /\ gfilesJob' = gfiles
          /\ gemit' = <<>>
          /\ sectionQuestionsMap' = <<>>
          /\ sidx' = 0
          /\ generatedFilesCount' = 0
     ELSE /\ gpc' = "batchDone"
          /\ UNCHANGED <<jobIdx, gdirsJob, gfilesJob, gemit, sectionQuestionsMap, sidx,
                         generatedFilesCount>>
  /\ UNCHANGED <<jobs, gdirs, gfiles, glog, goutcome>>
  /\ UNCHANGED notGroup

NextGroup ==
  \/ setupOutputDirectory
  \/ JobRead
  \/ JobParse
  \/ JobGroup
  \/ \E ok \in BOOLEAN : JobSection(ok)
  \/ JobFinish
  \/ NextJob

IdleGroup ==
  /\ jobs = <<>> /\ jobIdx = 0 /\ gpc = "idle"
  /\ gdirs = {} /\ gdirsJob = {}
  /\ gfiles = NoFiles /\ gfilesJob = NoFiles
  /\ sectionQuestionsMap = <<>> /\ sidx = 0 /\ generatedFilesCount = 0
  /\ glog = <<>> /\ gemit = <<>> /\ goutcome = "none"

\* -------------------------------- svg_dimension_parser.js: getSvgDimensions
\* The SVG text is modelled by what /<svg[^>]*>/i finds in it: no root tag,
\* or a root tag with its attributes in the order written, each a name and a
\* quoted value (characters, lower case apart from viewBox).
IsSuffix(suf, s) == Len(suf) <= Len(s) /\ SubSeq(s, Len(s) - Len(suf) + 1, Len(s)) = suf

\* extractAttribute(tagString, attributeName), lines 19-25: the regular
\* expression is not anchored at a word start, so the leftmost attribute
\* whose name ends with attributeName is the one found (stroke-width for
\* width); null when there is none.
extractAttribute(tagString, attributeName) ==
  IF \E i \in DOMAIN tagString : IsSuffix(attributeName, tagString[i].name)
  THEN StrVal(tagString[CHOOSE i \in DOMAIN tagString :
                  /\ IsSuffix(attributeName, tagString[i].name)
                  /\ \A j \in 1..(i - 1) : ~IsSuffix(attributeName, tagString[j].name)].value)
  ELSE NullVal

Separators == {" ", ","}
RECURSIVE TrimLeft(_)
TrimLeft(s) == IF s # <<>> /\ Head(s) = " " THEN TrimLeft(Tail(s)) ELSE s
RECURSIVE TrimRight(_)
TrimRight(s) == IF s # <<>> /\ s[Len(s)] = " " THEN TrimRight(SubSeq(s, 1, Len(s) - 1)) ELSE s
Trim(s) == TrimRight(TrimLeft(s))

\* s.split(/[\s,]+/): the pieces between runs of separators; a separator at
\* the very start or end leaves an empty piece there, and '' gives [''].
RECURSIVE SplitFrom(_, _, _)
SplitFrom(s, cur, inRun) ==
  IF s = <<>> THEN <<cur>>
  ELSE IF Head(s) \in Separators
       THEN (IF inRun THEN <<>> ELSE <<cur>>) \o SplitFrom(Tail(s), <<>>, TRUE)
       ELSE SplitFrom(Tail(s), Append(cur, Head(s)), FALSE)
Split(s) == SplitFrom(s, <<>>, FALSE)

UnitSuffixes == {<<"%">>, <<"p", "x">>, <<"e", "m">>, <<"r", "e", "m">>, <<"p", "t">>, <<"i", "n">>}
HasUnitSuffix(w) == \E i \in DOMAIN w : SubSeq(w, i, Len(w)) \in UnitSuffixes
\* width.match(/(%|px|em|rem|pt|in)$/i)?.[0]: the leftmost match
UnitSuffix(w) ==
  SubSeq(w, CHOOSE i \in DOMAIN w :
              /\ SubSeq(w, i, Len(w)) \in UnitSuffixes
              /\ \A j \in 1..(i - 1) : SubSeq(w, j, Len(w)) \notin UnitSuffixes, Len(w))

UnitUnknown == <<"u", "n", "k", "n", "o", "w", "n">>
UnitFromViewBox == <<"u", "n", "i", "t", "l", "e", "s", "s", " ", "(", "f", "r", "o", "m", " ", "v", "i", "e", "w", "B", "o", "x", ")">>
UnitDefaultPx == <<"u", "n", "i", "t", "l", "e", "s", "s", " ", "(", "d", "e", "f", "a", "u", "l", "t", " ", "p", "x", ")">>

\* lines 60-73: does the viewBox fill in what is missing?
DerivesFromViewBox(width, height, viewBox) ==
  (~Truthy(width) \/ ~Truthy(height)) /\ Truthy(viewBox) /\ Len(Split(Trim(viewBox.s))) = 4

\* getSvgDimensions(svgContent), lines 36-91
getSvgDimensions(content) ==
  IF ~content.hasTag
  THEN [error |-> TRUE, width |-> NullVal, height |-> NullVal, unit |-> UnitUnknown,
        viewBox |-> NullVal, source |-> "error", message |-> FALSE]
  ELSE
    LET width == extractAttribute(content.tag, <<"w", "i", "d", "t", "h">>)
        height == extractAttribute(content.tag, <<"h", "e", "i", "g", "h", "t">>)
        viewBox == extractAttribute(content.tag, <<"v", "i", "e", "w", "B", "o", "x">>)
        derive == DerivesFromViewBox(width, height, viewBox)
        parts == Split(Trim(viewBox.s))
        dwidth == IF derive /\ ~Truthy(width) THEN StrVal(parts[3]) ELSE width
        dheight == IF derive /\ ~Truthy(height) THEN StrVal(parts[4]) ELSE height
        source == IF derive THEN "viewBox aspect ratio"
                  ELSE IF Truthy(width) \/ Truthy(height) THEN "attributes" ELSE "none found"
        unit == IF derive THEN UnitFromViewBox
                ELSE IF source = "attributes" /\ Truthy(width)
                     THEN (IF HasUnitSuffix(width.s) THEN UnitSuffix(width.s) ELSE UnitDefaultPx)
                     ELSE UnitUnknown
    IN  IF dwidth = NullVal /\ dheight = NullVal
        THEN [error |-> FALSE, width |-> NullVal, height |-> NullVal, unit |-> UnitUnknown,
              viewBox |-> viewBox, source |-> "none found", message |-> TRUE]
        ELSE [error |-> FALSE, width |-> dwidth, height |-> dheight, unit |-> unit,
              viewBox |-> viewBox, source |-> source, message |-> FALSE]

\* ---- the inputs of getSvgDimensions
Attr(name, value) == [name |-> name, value |-> value]
WidthName == <<"w", "i", "d", "t", "h">>
WidthAttrs == {Attr(WidthName, v) : v \in {<<>>, <<"4", "p", "x">>, <<"1", "0", "0", "%">>,
                 <<"2", "r", "e", "m">>, <<"7">>, <<"a", "u", "t", "o">>}}
HeightAttrs == {Attr(<<"h", "e", "i", "g", "h", "t">>, v) : v \in {<<>>, <<"3", "p", "x">>, <<"a", "u", "t", "o">>}}
ViewBoxAttrs == {Attr(<<"v", "i", "e", "w", "B", "o", "x">>, v) : v \in
                  {<<"0", " ", "0", " ", "4", " ", "3">>, <<"0", ",", "0", ",", " ", "4", " ", "3">>, <<" ", "0", " ", "0", " ", "4", " ", "3", " ">>, <<"0", " ", "0", " ", "4">>, <<",", "0", " ", "0", " ", "4", " ", "3">>, <<>>}}
OtherAttrs == {Attr(<<"s", "t", "r", "o", "k", "e", "-", "w", "i", "d", "t", "h">>, <<"2">>), Attr(<<"x", "m", "l", "n", "s">>, <<"u">>)}
AllAttrs == WidthAttrs \cup HeightAttrs \cup ViewBoxAttrs \cup OtherAttrs
RootTags ==
  {tag \in SeqsUpTo(AllAttrs, MaxAttrs) :
     \A i, j \in DOMAIN tag : i # j => tag[i].name # tag[j].name}
SvgContents ==
  {[hasTag |-> TRUE, tag |-> tag] : tag \in RootTags} \cup {[hasTag |-> FALSE, tag |-> <<>>]}

NoResult == [error |-> FALSE, width |-> NullVal, height |-> NullVal, unit |-> UnitUnknown,
             viewBox |-> NullVal, source |-> "not run", message |-> FALSE]

InitSvg ==
  /\ svgContent \in SvgContents
  /\ sresult = NoResult
  /\ spc = "start"

\* line 103 / lines 146-156: result = getSvgDimensions(svgContent)
Analyze ==
  /\ spc = "start"
  /\ sresult' = getSvgDimensions(svgContent)
  /\ spc' = "done"
  /\ UNCHANGED svgContent
  /\ UNCHANGED notSvg

NextSvg == Analyze

IdleSvg == svgContent = [hasTag |-> FALSE, tag |-> <<>>] /\ sresult = NoResult /\ spc = "idle"

IdleExtract ==
  /\ einput = [st |-> "missing", doc |-> NullVal]
  /\ edir0 = FALSE /\ edir = FALSE
  /\ efiles0 = NoFiles /\ efiles = NoFiles
  /\ epc = "idle"
  /\ allQuestions = <<>> /\ eidx = 0 /\ filesCreated = 0
  /\ elog = <<>> /\ wlog = <<>>

IdleEscape == xin = Undefined /\ xout1 = <<>> /\ xout2 = <<>> /\ xpc = "idle"

InitEscape ==
  /\ xin \in EscInputs
  /\ xout1 = <<>>
  /\ xout2 = <<>>
  /\ xpc = "start"

\* escapedOnce = escape(x)
EscapeOnce ==
  /\ xpc = "start"
  /\ xout1' = escape(xin)
  /\ xpc' = "once"
  /\ UNCHANGED <<xin, xout2>>
  /\ UNCHANGED notEscape

\* escape(escape(x)): the result of escape is a string and is escaped again
EscapeTwice ==
  /\ xpc = "once"
  /\ xout2' = escape(StrVal(xout1))
  /\ xpc' = "twice"
  /\ UNCHANGED <<xin, xout1>>
  /\ UNCHANGED notEscape

NextEscape == EscapeOnce \/ EscapeTwice

\* ---------------------------------------------------------- specifications
\* Each program runs on its own; the state of the others stays idle.
EscapeStart == InitEscape /\ IdleExtract /\ IdleGroup /\ IdleSvg
ExtractStart == InitExtract /\ IdleEscape /\ IdleGroup /\ IdleSvg
GroupStart == InitGroup /\ IdleEscape /\ IdleExtract /\ IdleSvg
FilesStart == ExtractStart \/ GroupStart
SvgStart == InitSvg /\ IdleEscape /\ IdleExtract /\ IdleGroup

SpecEscape == EscapeStart /\ [][NextEscape]_vars
SpecExtract == ExtractStart /\ [][NextExtract]_vars
SpecGroup == GroupStart /\ [][NextGroup]_vars
SpecSvg == SvgStart /\ [][NextSvg]_vars
\* both file-writing programs, for the claims that speak of both
NextFiles == NextExtract \/ NextGroup
SpecFiles == FilesStart /\ [][NextFiles]_vars

\* ------------------------------------------------------ claims: extractor
\* The collection as the specification words it: depth first, every object's
\* keys in insertion (document) order, arrays element by element, each array
\* under a key 'questions' taken whole and not searched further.
InsertionOrderEntries(jsonObj) == jsonObj.e
RECURSIVE DocumentOrderCollect(_), DocumentOrderCollectEntries(_)
DocumentOrderCollect(val) ==
  IF val.t \in {"obj", "arr"} THEN DocumentOrderCollectEntries(InsertionOrderEntries(val)) ELSE <<>>
DocumentOrderCollectEntries(entries) ==
  IF entries = <<>> THEN <<>>
  ELSE LET en == Head(entries)
       IN  (IF en.k = "questions" /\ en.v.t = "arr" THEN Elements(en.v)
            ELSE DocumentOrderCollect(en.v))
             \o DocumentOrderCollectEntries(Tail(entries))

\* The values found under a key 'questions' that are no sequence.
RECURSIVE NonSeqQuestions(_)
NonSeqQuestions(val) ==
  IF val.t \notin {"obj", "arr"} THEN {}
  ELSE UNION {IF val.e[i].k = "questions"
              THEN (IF val.e[i].v.t = "arr" THEN {} ELSE {val.e[i].v})
              ELSE NonSeqQuestions(val.e[i].v) : i \in DOMAIN val.e}

\* What spreading or walking a non-sequence value could yield.
DerivedFrom(val) ==
  {StrVal(<<val.s[i]>>) : i \in DOMAIN val.s} \cup {val.e[i].v : i \in DOMAIN val.e} \cup {val}

Traversed == epc \in {"write", "done"}

\* C1: once traverse has returned, allQuestions is the concatenation, in
\* document order, of every array found under a 'questions' key (so it has
\* the sum of their lengths, nothing reordered, nothing dropped).
C1_DocumentOrderConcat ==
  Traversed => allQuestions = DocumentOrderCollect(einput.doc)

\* C9: a 'questions' value that is no sequence never contributes elements to
\* allQuestions: the run fails with a report or skips the key.
C9_NonSequenceContributesNothing ==
  (epc \in {"write", "done", "uncaught"}) =>
    \A v \in NonSeqQuestions(einput.doc) :
      \A i \in DOMAIN allQuestions : allQuestions[i] \notin DerivedFrom(v)

SameNumber(q1, q2) == Get(q1, "number") = Get(q2, "number")
LastWithNumber(i) ==
  CHOOSE j \in DOMAIN allQuestions :
    /\ SameNumber(allQuestions[j], allQuestions[i])
    /\ \A k \in DOMAIN allQuestions : SameNumber(allQuestions[k], allQuestions[i]) => k <= j
WrittenNames == {FileName(allQuestions[i]) : i \in DOMAIN allQuestions}
AllWritesSucceeded == \A i \in DOMAIN wlog : wlog[i].ok

\* C10: when main ends and every write succeeded, there was one write per
\* question in extraction order, <number>.tex holds the fragment of the last
\* question with that number, the run's files are one per distinct number,
\* and filesCreated is the number of questions.
C10_LastDuplicateWins ==
  (epc = "done" /\ AllWritesSucceeded) =>
    /\ Len(wlog) = Len(allQuestions)
    /\ \A i \in DOMAIN allQuestions :
         /\ wlog[i].name = FileName(allQuestions[i])
         /\ efiles[FileName(allQuestions[i])] = LatexFragment(allQuestions[LastWithNumber(i)])
    /\ DOMAIN efiles = DOMAIN efiles0 \cup WrittenNames
    /\ \A n \in DOMAIN efiles0 \ WrittenNames : efiles[n] = efiles0[n]
    /\ Cardinality(WrittenNames) =
         Cardinality({Get(allQuestions[i], "number") : i \in DOMAIN allQuestions})
    /\ filesCreated = Len(allQuestions)

C10_Witness ==
  /\ epc = "done" /\ AllWritesSucceeded
  /\ \E i, j \in DOMAIN allQuestions :
       /\ i < j /\ SameNumber(allQuestions[i], allQuestions[j])
       /\ LatexFragment(allQuestions[i]) # LatexFragment(allQuestions[j])
       /\ efiles[FileName(allQuestions[i])] = LatexFragment(allQuestions[LastWithNumber(j)])
  /\ filesCreated > Cardinality(WrittenNames)
  /\ Cardinality(WrittenNames) > 1

\* -------------------------------------------------------- claims: grouper
CurSections == jobs[jobIdx].sections
CurQuestions == jobs[jobIdx].questions
SameKey(q, s) == KeyOf(q) = KeyOf(s)
SamePair(q, s) ==
  Get(q, "chapter") = Get(s, "chapter") /\ Get(q, "section") = Get(s, "section")
Matching(questions, s, Same(_, _)) == SelectSeq(questions, LAMBDA q : Same(q, s))

\* The section file the specification describes for section s and its
\* questions qs: the header line, then one \input line per question, in order.
RECURSIVE JoinLines(_)
JoinLines(lines) ==
  IF lines = <<>> THEN <<>> ELSE JoinLines(SubSeq(lines, 1, Len(lines) - 1)) \o lines[Len(lines)]
InputLineOf(q) == <<" ", " ", " ", " ", BS, "i", "n", "p", "u", "t", "{", "t", "e", "x", "_", "f", "r", "a", "g", "e", "n", "/">> \o ToStr(Get(q, "number")) \o <<".", "t", "e", "x", "}", "\n">>
SectionFile(s, qs) ==
  <<"%", " ", "K", "a", "p", "i", "t", "e", "l", " ">> \o ToStr(Get(s, "chapter")) \o <<",", " ", "S", "e", "k", "t", "i", "o", "n", " ">> \o ToStr(Get(s, "section")) \o <<":", " ">>
    \o ToStr(Get(s, "section_txt")) \o <<"\n", "\n">>
    \o <<BS, "b", "e", "g", "i", "n", "{", "d", "e", "s", "c", "r", "i", "p", "t", "i", "o", "n", "}", "\n">> \o JoinLines([i \in DOMAIN qs |-> InputLineOf(qs[i])]) \o <<BS, "e", "n", "d", "{", "d", "e", "s", "c", "r", "i", "p", "t", "i", "o", "n", "}", "\n">>

\* The files due for the sections handled so far: one per section with a
\* matching question, in section order, none for the others.
ExpectedUnits(sections, questions, Same(_, _)) ==
  LET matched == SelectSeq(sections, LAMBDA s : Matching(questions, s, Same) # <<>>)
  IN  [i \in DOMAIN matched |->
         [path |-> <<OutputDir(jobIdx), SectionFileName(matched[i])>>,
          content |-> SectionFile(matched[i], Matching(questions, matched[i], Same))]]

InSectionLoop ==
  \/ gpc = "sections"
  \/ gpc \in {"returned", "batchDone"} /\ goutcome = "done"
  \/ gpc = "uncaught" /\ goutcome = "writeThrew"
JobReturnedDone == gpc = "returned" /\ goutcome = "done"

\* C2: the files a job has written are, in section order, exactly one per
\* handled section that has a question with the same key, each listing its
\* questions in question-sequence order; a job that returns has handled
\* every section.
C2_SectionOrderQuestionOrder ==
  InSectionLoop =>
    /\ gemit = ExpectedUnits(SubSeq(CurSections, 1, sidx - 1), CurQuestions, SameKey)
    /\ generatedFilesCount = Len(gemit)
    /\ \A i \in DOMAIN gemit : gfiles[gemit[i].path] \in {gemit[j].content : j \in i..Len(gemit)}
    /\ JobReturnedDone => sidx = Len(CurSections) + 1

C2_Witness ==
  /\ JobReturnedDone
  /\ Len(CurSections) = MaxGS
  /\ Len(gemit) = 1
  /\ \E s \in DOMAIN CurSections : Matching(CurQuestions, CurSections[s], SameKey) = <<>>
  /\ \E s \in DOMAIN CurSections :
       /\ Len(Matching(CurQuestions, CurSections[s], SameKey)) = 2
       /\ ToStr(Get(Matching(CurQuestions, CurSections[s], SameKey)[1], "number")) = <<"B">>
       /\ ToStr(Get(Matching(CurQuestions, CurSections[s], SameKey)[2], "number")) = <<"A">>
       /\ gemit[1].content = SectionFile(CurSections[s], Matching(CurQuestions, CurSections[s], SameKey))

\* C3: a question is listed in a section's file exactly if its chapter and
\* its section equal the section's, whatever characters they hold.
C3_JoinByPairEquality ==
  InSectionLoop =>
    gemit = ExpectedUnits(SubSeq(CurSections, 1, sidx - 1), CurQuestions, SamePair)

\* C4: a failed write is logged and skipped and the items after it are still
\* written: main attempts every question, and the grouper never stops at a
\* failed section write while a matched section is still to come.
C4_WriteFailureSkipsOnlyItem ==
  /\ (epc = "done" =>
        /\ Len(wlog) = Len(allQuestions)
        /\ \A i \in DOMAIN wlog : wlog[i].name = FileName(allQuestions[i]))
  /\ (gpc = "uncaught" /\ goutcome = "writeThrew") =>
        \A k \in (sidx + 1)..Len(CurSections) :
          Matching(CurQuestions, CurSections[k], SameKey) = <<>>

\* C5: a job that fails (unreadable file, invalid JSON, missing fields) is
\* logged and ends alone: the batch never stops at it with jobs left over.
JobFailed == goutcome \in {"readError", "parseThrew", "schemaError"}
C5_FailedJobEndsAlone ==
  /\ (gpc = "returned" /\ JobFailed) => glog # <<>>
  /\ (gpc \in {"uncaught", "batchDone"} /\ JobFailed) => jobIdx = Len(jobs)

\* C6 as stated: after a failed read the run has ended with a report, no
\* file written or replaced and the output directory as it was.
ReadFailed == einput.st # "ok" /\ epc \notin {"idle", "start", "read"}
JobReadFailed == gpc # "idle" /\ goutcome = "readError" /\ gpc = "returned"
C6_ReadFailureTouchesNothing ==
  /\ ReadFailed => (epc = "readError" /\ elog # <<>> /\ efiles = efiles0 /\ edir = edir0)
  /\ JobReadFailed => (glog # <<>> /\ gfiles = gfilesJob /\ gdirs = gdirsJob)

\* C6 amended: after a failed read the run has ended with a report and no
\* file was written or replaced; the output directory exists, created by the
\* setup step that runs before the read if it was not there.
C6_ReadFailureWritesNoFile ==
  /\ ReadFailed => (epc = "readError" /\ elog # <<>> /\ efiles = efiles0 /\ edir)
  /\ JobReadFailed =>
       (glog # <<>> /\ gfiles = gfilesJob /\ gdirs = gdirsJob \cup {OutputDir(jobIdx)})

C6_Witness ==
  \/ epc = "readError" /\ ~edir0 /\ edir /\ efiles = efiles0
  \/ JobReadFailed /\ OutputDir(jobIdx) \notin gdirsJob /\ OutputDir(jobIdx) \in gdirs

\* --------------------------------------------------- claims: SVG extractor
RootHas(name) == \E i \in DOMAIN svgContent.tag : svgContent.tag[i].name = name
RootValue(name) ==
  svgContent.tag[CHOOSE i \in DOMAIN svgContent.tag : svgContent.tag[i].name = name].value
\* the root tag carries the attribute with a value (not name="")
Explicit(name) == RootHas(name) /\ RootValue(name) # <<>>

\* C7: width and height come from viewBox only when the root tag has neither;
\* an explicit (non-empty) width with a unit suffix is reported unchanged with source
\* 'attributes' and that suffix as unit, and an explicit width without one
\* with unit 'unitless (default px)', whatever height and viewBox are.
C7_ExplicitWidthKeepsUnit ==
  (spc = "done" /\ svgContent.hasTag) =>
    /\ sresult.source = "viewBox aspect ratio" =>
         (~Explicit(WidthName) /\ ~Explicit(<<"h", "e", "i", "g", "h", "t">>))
    /\ (Explicit(WidthName)
          /\ extractAttribute(svgContent.tag, WidthName) = StrVal(RootValue(WidthName))) =>
         IF HasUnitSuffix(RootValue(WidthName))
         THEN /\ sresult.width = StrVal(RootValue(WidthName))
              /\ sresult.source = "attributes"
              /\ IsSuffix(sresult.unit, RootValue(WidthName)) /\ sresult.unit \in UnitSuffixes
         ELSE sresult.unit = UnitDefaultPx

\* C8: escape(escape(x)) differs from escape(x) for every string x holding an
\* '&', and escape of a non-string is the empty string.
C8_NotIdempotent ==
  /\ (xpc = "twice" /\ xin.t = "str" /\ "&" \in Chars(xin.s)) => xout2 # xout1
  /\ (xpc # "start" /\ xin.t # "str") => xout1 = <<>>

C8_Witness ==
  /\ xpc = "twice" /\ xin.t = "str" /\ "&" \in Chars(xin.s)
  /\ Len(xin.s) = MaxTextLen /\ xout2 # xout1 /\ Len(xout2) > Len(xout1)
====
